---- MODULE Spec2Model ----
(***************************************************************************)
(* A model of the gokrb5 client core: the crypto engine                    *)
(* (crypto/EncryptionEngine.go), the principal salt                        *)
(* (types/PrincipalName.go) and the AS / TGS exchanges of the client.      *)
(*                                                                         *)
(* Byte strings are sequences of 0..255.  The enctype primitives (E, D,    *)
(* DK, HMAC, string-to-key) live in files that are not part of the         *)
(* sources at hand; they are modelled by small keyed arithmetic functions  *)
(* that keep what the engine relies on: E is length preserving and D with  *)
(* the same key inverts it, D with another key does not, DK depends on     *)
(* the key and on the usage constant, the HMAC depends on key and data.    *)
(***************************************************************************)
EXTENDS Integers, Sequences, FiniteSets, TLC

VARIABLES
  encIn, encOut, decIn, decOut,   \* calls of GetEncryptedData / DecryptEncPart
  keyIn, keyOut,                  \* a call of GetKeyFromPassword
  configured,                     \* what cl.IsConfigured() answers
  Default_tkt_enctype_ids,        \* cl.Config.LibDefaults.Default_tkt_enctype_ids
  Keytab,                         \* cl.Credentials.Keytab: the keys of the user
  Session,                        \* cl.Session
  Cache,                          \* cl.Cache: service name -> entry
  call,                           \* the last call of the client: inputs and outcome
  apIn, apOut,                    \* calls of NewAPReq / APReq.Unmarshal
  usIn, usOut                     \* calls of GetUsageKc / GetUsageKe / GetUsageKi

cryptoVars == <<encIn, encOut, decIn, decOut>>
keyVars == <<keyIn, keyOut>>
clientVars == <<configured, Default_tkt_enctype_ids, Keytab, Session, Cache, call>>
apVars == <<apIn, apOut>>
usVars == <<usIn, usOut>>
vars == <<encIn, encOut, decIn, decOut, keyIn, keyOut,
          configured, Default_tkt_enctype_ids, Keytab, Session, Cache, call,
          apIn, apOut, usIn, usOut>>

----------------------------------------------------------------------------
(* Bounds of the model.                                                    *)

\* longest plaintext handed to GetEncryptedData
MaxPtLen == 2

\* longest PA-DATA sequence handed to GetKeyFromPassword
MaxPAData == 2

----------------------------------------------------------------------------
(* iana constants.                                                         *)

AES128_CTS_HMAC_SHA1_96 == 17
AES256_CTS_HMAC_SHA1_96 == 18

\* patype
PA_ENC_TIMESTAMP == 2
PA_PW_SALT == 3
PA_ETYPE_INFO == 11
PA_ETYPE_INFO2 == 19

\* errorcode
KDC_ERR_C_PRINCIPAL_UNKNOWN == 6
KDC_ERR_PREAUTH_REQUIRED == 25

\* keyusage
AS_REQ_PA_ENC_TIMESTAMP == 1
AS_REP_ENCPART == 3
TGS_REQ_PA_TGS_REQ_AP_REQ_AUTHENTICATOR == 7
TGS_REP_ENCPART_SESSION_KEY == 8

\* msgtype
KRB_AS_REQ == 10
KRB_AS_REP == 11
KRB_TGS_REQ == 12
KRB_TGS_REP == 13
KRB_AP_REQ == 14

\* iana.PVNO, patype.PA_TGS_REQ, nametype.KRB_NT_PRINCIPAL
PVNO == 5
PA_TGS_REQ == 1
KRB_NT_PRINCIPAL == 1

----------------------------------------------------------------------------
(* Byte-string helpers.                                                    *)

\* the sum of the bytes of s, and their sum weighted by position: the mixing
\* steps of the models of DK and HMAC below
RECURSIVE SumFrom(_, _)
SumFrom(s, i) == IF i > Len(s) THEN 0 ELSE s[i] + SumFrom(s, i + 1)

RECURSIVE PosSumFrom(_, _)
PosSumFrom(s, i) == IF i > Len(s) THEN 0 ELSE s[i] * i + PosSumFrom(s, i + 1)

WSum(s, w) == (PosSumFrom(s, 1) + w * SumFrom(s, 1)) % 65521

\* s[from:] of Go, from counted from 0
SliceFrom(s, from) == SubSeq(s, from + 1, Len(s))

\* s[:to] of Go
SliceTo(s, to) == SubSeq(s, 1, to)

\* all byte strings over alphabet A of length at most n
RECURSIVE SeqsUpTo(_, _)
SeqsUpTo(A, n) ==
  IF n = 0 THEN {<<>>}
  ELSE LET shorter == SeqsUpTo(A, n - 1)
       IN  shorter \cup {Append(s, a) : s \in {t \in shorter : Len(t) = n - 1}, a \in A}

----------------------------------------------------------------------------
(* The EType interface (EncryptionEngine.go:18-36) and its two AES         *)
(* variants.  An etype value is its id.                                    *)

\* GetEtype: the registry; ok is FALSE for an unknown id
GetEtype(id) ==
  IF id \in {AES128_CTS_HMAC_SHA1_96, AES256_CTS_HMAC_SHA1_96}
  THEN [ok |-> TRUE, etype |-> id]
  ELSE [ok |-> FALSE, etype |-> 0]

GetKeyByteSize(e) == IF e = AES128_CTS_HMAC_SHA1_96 THEN 16 ELSE 32

GetConfounderByteSize(e) == 16

GetHMACBitLength(e) == 96

\* the AES block cipher takes keys of 16, 24 or 32 bytes
ValidCipherKey(k) == Len(k) \in {16, 24, 32}

\* DK(protocol-key, constant): a key of the etype's size that depends on
\* every byte of the key and on the constant
DeriveKey(e, key, usage) ==
  IF ~ValidCipherKey(key)
  THEN [err |-> TRUE, k |-> <<>>]
  ELSE LET c == WSum(usage, 2)
       IN  [err |-> FALSE,
            k |-> [j \in 1..GetKeyByteSize(e) |->
                     (key[((j - 1) % Len(key)) + 1] * 5 + c + 3 * j + 1) % 256] \o <<>>]

\* E: length preserving, needs at least one cipher block
Encrypt(e, key, message) ==
  IF ~ValidCipherKey(key) \/ Len(message) < GetConfounderByteSize(e)
  THEN [err |-> TRUE, ct |-> <<>>]
  ELSE [err |-> FALSE,
        ct |-> [i \in 1..Len(message) |->
                  (message[i] + key[((i - 1) % Len(key)) + 1] + i) % 256] \o <<>>]

\* D: the inverse of E under the same key
Decrypt(e, key, ciphertext) ==
  IF ~ValidCipherKey(key) \/ Len(ciphertext) < GetConfounderByteSize(e)
  THEN [err |-> TRUE, pt |-> <<>>]
  ELSE [err |-> FALSE,
        pt |-> [i \in 1..Len(ciphertext) |->
                  (ciphertext[i] - key[((i - 1) % Len(key)) + 1] - i) % 256] \o <<>>]

\* hmac.New(etype.GetHash, k); Write(p); Sum(nil): the 20 bytes of HMAC-SHA1
HmacSum(k, p) ==
  LET p0 == SumFrom(p, 1)
      p1 == PosSumFrom(p, 1)
      k0 == SumFrom(k, 1)
      k1 == PosSumFrom(k, 1)
  IN  [j \in 1..20 |-> ((p1 + j * p0) * 7 + k1 + j * k0 + Len(p) + j) % 256] \o <<>>

\* default s2kparams: the hex string "00001000" (4096 iterations), one
\* element per hex digit
GetDefaultStringToKeyParams(e) == <<0, 0, 0, 0, 1, 0, 0, 0>>

\* hex.EncodeToString
HexEncodeToString(b) ==
  [i \in 1..(2 * Len(b)) |->
     IF i % 2 = 1 THEN b[(i + 1) \div 2] \div 16 ELSE b[i \div 2] % 16] \o <<>>

\* the iteration count of a hex s2kparams string: 4 bytes, big-endian
S2KIterations(h) ==
  (((h[1] * 16 + h[2]) * 256 + (h[3] * 16 + h[4])) * 256
     + (h[5] * 16 + h[6])) * 256 + (h[7] * 16 + h[8])

\* string-to-key: fails unless s2kparams is 4 bytes with a count > 0; the key
\* has the etype's key size and depends on password, salt and count
StringToKey(e, passwd, salt, s2kparams) ==
  IF Len(s2kparams) # 8 THEN [err |-> TRUE, k |-> <<>>]
  ELSE LET iter == S2KIterations(s2kparams)
           c == WSum(passwd, 1) + 3 * WSum(salt, 2) + 7 * (iter % 65521)
       IN  IF iter = 0 THEN [err |-> TRUE, k |-> <<>>]
           ELSE [err |-> FALSE,
                 k |-> [j \in 1..GetKeyByteSize(e) |-> (c + 5 * j) % 256] \o <<>>]

\* hmac.Equal
HmacEqual(a, b) == a = b

----------------------------------------------------------------------------
(* Key usage constants (EncryptionEngine.go:282-309).                      *)

\* uint32(usage) of a Go int.  The usage numbers of the model lie in
\* 0..2^31-1 (the integers of TLC), where the conversion keeps the value
Uint32(n) == IF n >= 0 THEN n ELSE n + 2147483647 + 1

\* getUsage with binary.LittleEndian
getUsage_LittleEndian(un, o) ==
  << un % 256, (un \div 256) % 256, (un \div 65536) % 256, (un \div 16777216) % 256, o >>

getUsage(un, o) ==
  << (un \div 16777216) % 256, (un \div 65536) % 256, (un \div 256) % 256, un % 256, o >>

GetUsageKc(un) == getUsage(un, 153)

GetUsageKe(un) == getUsage(un, 170)

GetUsageKi(un) == getUsage(un, 85)

----------------------------------------------------------------------------
(* Integrity hash (EncryptionEngine.go:238-269).                           *)

getHash(pt, key, usage, e) ==
  LET d == DeriveKey(e, key, usage)
  IN  IF d.err THEN [err |-> TRUE, h |-> <<>>]
      ELSE [err |-> FALSE, h |-> SliceTo(HmacSum(d.k, pt), GetHMACBitLength(e) \div 8)]

GetChecksumHash(pt, key, usage, e) == getHash(pt, key, GetUsageKc(usage), e)

GetIntegrityHash(pt, key, usage, e) == getHash(pt, key, GetUsageKi(usage), e)

\* ct[len(ct)-12:] is evaluated only by callers that hold len(ct) >= 12
VerifyIntegrity(key, ct, pt, usage, e) ==
  LET n == GetHMACBitLength(e) \div 8
      h == SliceFrom(ct, Len(ct) - n)
      expectedMAC == GetIntegrityHash(pt, key, usage, e).h
  IN  HmacEqual(h, expectedMAC)

----------------------------------------------------------------------------
(* GetEncryptedData (EncryptionEngine.go:311-344).  rnd is what rand.Read  *)
(* delivers: the confounder bytes, or an error.                            *)

NoEncryptedData == [EType |-> 0, Cipher |-> <<>>, KVNO |-> 0]

\* the zero value of types.EncryptionKey
ZeroKey == [KeyType |-> 0, KeyValue |-> <<>>]

GetEncryptedData(pt, key, usage, kvno, rnd) ==
  LET et == GetEtype(key.KeyType)
      dk == DeriveKey(et.etype, key.KeyValue, GetUsageKe(Uint32(usage)))
      k  == IF usage # 0 THEN dk.k ELSE key.KeyValue
      cpt == rnd.c \o pt
      enc == Encrypt(et.etype, k, cpt)
      ih  == GetIntegrityHash(cpt, key.KeyValue, Uint32(usage), et.etype)
  IN  IF ~et.ok THEN [err |-> "Error getting etype", ed |-> NoEncryptedData]
      ELSE IF usage # 0 /\ dk.err THEN [err |-> "Error deriving key", ed |-> NoEncryptedData]
      ELSE IF rnd.err
        THEN [err |-> "Could not generate random confounder", ed |-> NoEncryptedData]
      ELSE IF enc.err THEN [err |-> "Error encrypting data", ed |-> NoEncryptedData]
      ELSE [err |-> "",
            ed |-> [EType |-> key.KeyType, Cipher |-> enc.ct \o ih.h, KVNO |-> kvno]]

----------------------------------------------------------------------------
(* DecryptEncPart (EncryptionEngine.go:148-169).  kind is "ok", "error" or *)
(* "panic" (a slice expression out of range).                              *)

\* DecryptEncPart without the integrity check
DecryptEncPart_NoVerify(key, pe, etype, usage) ==
  LET n == GetHMACBitLength(etype) \div 8
      dk == DeriveKey(etype, key, GetUsageKe(usage))
      dec == Decrypt(etype, dk.k, SliceTo(pe.Cipher, Len(pe.Cipher) - n))
  IN  IF dk.err THEN [kind |-> "error", err |-> "Error deriving key", pt |-> <<>>]
      ELSE IF Len(pe.Cipher) < n THEN [kind |-> "panic", err |-> "", pt |-> <<>>]
      ELSE IF dec.err THEN [kind |-> "error", err |-> "Error decrypting", pt |-> <<>>]
      ELSE IF Len(dec.pt) < GetConfounderByteSize(etype)
        THEN [kind |-> "panic", err |-> "", pt |-> <<>>]
      ELSE [kind |-> "ok", err |-> "",
            pt |-> SliceFrom(dec.pt, GetConfounderByteSize(etype))]

DecryptEncPart(key, pe, etype, usage) ==
  LET n == GetHMACBitLength(etype) \div 8
      dk == DeriveKey(etype, key, GetUsageKe(usage))
      dec == Decrypt(etype, dk.k, SliceTo(pe.Cipher, Len(pe.Cipher) - n))
  IN  IF dk.err THEN [kind |-> "error", err |-> "Error deriving key", pt |-> <<>>]
      ELSE IF Len(pe.Cipher) < n THEN [kind |-> "panic", err |-> "", pt |-> <<>>]
      ELSE IF dec.err THEN [kind |-> "error", err |-> "Error decrypting", pt |-> <<>>]
      ELSE IF ~VerifyIntegrity(key, pe.Cipher, dec.pt, usage, etype)
        THEN [kind |-> "error", err |-> "integrity verification failed", pt |-> <<>>]
      ELSE IF Len(dec.pt) < GetConfounderByteSize(etype)
        THEN [kind |-> "panic", err |-> "", pt |-> <<>>]
      ELSE [kind |-> "ok", err |-> "",
            pt |-> SliceFrom(dec.pt, GetConfounderByteSize(etype))]

----------------------------------------------------------------------------
(* PrincipalName.GetSalt (PrincipalName.go:11-18).  Strings are byte        *)
(* strings.                                                                *)

RECURSIVE AppendComponents(_, _, _)
AppendComponents(sb, names, i) ==
  IF i > Len(names) THEN sb ELSE AppendComponents(sb \o names[i], names, i + 1)

\* GetSalt with the name components put before the realm
GetSalt_ComponentsFirst(pn, realm) == AppendComponents(<<>>, pn.NameString, 1) \o realm

GetSalt(pn, realm) == AppendComponents(realm, pn.NameString, 1)

----------------------------------------------------------------------------
(* GetKeyFromPassword (EncryptionEngine.go:171-236).                        *)
(* A PA-DATA value is held decoded: raw are its bytes, ok tells whether    *)
(* ETypeInfo / ETypeInfo2 Unmarshal accepts them, entries is what it       *)
(* yields.  The loop state st carries the locals etype, sk2p, salt, paID.  *)

\* the body of one switch case for PA-ETYPE-INFO (withS2K = FALSE) and
\* PA-ETYPE-INFO2 (withS2K = TRUE)
ApplyETypeInfo(st, pa, etypeId, withS2K) ==
  LET info == pa.PADataValue
      g == GetEtype(info.entries[1].EType)
  IN  IF st.paID > pa.PADataType THEN st
      ELSE IF ~info.ok
        THEN [st EXCEPT !.stop = "error",
                        !.err = "Error unmashalling PA Data to PA-ETYPE-INFO2"]
      ELSE IF Len(info.entries) = 0 THEN [st EXCEPT !.stop = "panic"]
      ELSE IF etypeId # info.entries[1].EType /\ ~g.ok
        THEN [st EXCEPT !.stop = "error", !.err = "Error getting encryption type",
                        !.etype = 0]
      ELSE [st EXCEPT
              !.etype = IF etypeId # info.entries[1].EType THEN g.etype ELSE @,
              !.sk2p = IF withS2K /\ Len(info.entries[1].S2KParams) = 4
                       THEN HexEncodeToString(info.entries[1].S2KParams) ELSE @,
              !.salt = info.entries[1].Salt]

\* one iteration of the loop over pas
ApplyPAData(st, pa, etypeId) ==
  IF pa.PADataType = PA_PW_SALT
  THEN IF st.paID > pa.PADataType THEN st
       ELSE [st EXCEPT !.salt = pa.PADataValue.raw]
  ELSE IF pa.PADataType = PA_ETYPE_INFO THEN ApplyETypeInfo(st, pa, etypeId, FALSE)
  ELSE IF pa.PADataType = PA_ETYPE_INFO2 THEN ApplyETypeInfo(st, pa, etypeId, TRUE)
  ELSE st

RECURSIVE PADataLoop(_, _, _, _)
PADataLoop(st, pas, i, etypeId) ==
  IF i > Len(pas) \/ st.stop # "" THEN st
  ELSE PADataLoop(ApplyPAData(st, pas[i], etypeId), pas, i + 1, etypeId)

GetKeyFromPassword(passwd, cn, realm, etypeId, pas) ==
  LET g == GetEtype(etypeId)
      st0 == [etype |-> g.etype, sk2p |-> GetDefaultStringToKeyParams(g.etype),
              salt |-> <<>>, paID |-> 0, stop |-> "", err |-> ""]
      st == PADataLoop(st0, pas, 1, etypeId)
      salt == IF st.salt = <<>> THEN GetSalt(cn, realm) ELSE st.salt
      s2k == StringToKey(st.etype, passwd, salt, st.sk2p)
      none == [kind |-> "error", err |-> "", key |-> ZeroKey, etype |-> 0,
               salt |-> <<>>, sk2p |-> <<>>]
  IN  IF ~g.ok THEN [none EXCEPT !.err = "Error getting encryption type"]
      ELSE IF st.stop = "panic" THEN [none EXCEPT !.kind = "panic"]
      ELSE IF st.stop = "error" THEN [none EXCEPT !.err = st.err, !.etype = st.etype]
      ELSE IF s2k.err
        THEN [none EXCEPT !.err = "Error deriving key from string", !.etype = st.etype,
                          !.salt = salt, !.sk2p = st.sk2p]
      ELSE [kind |-> "ok", err |-> "",
            key |-> [KeyType |-> etypeId, KeyValue |-> s2k.k],
            etype |-> st.etype, salt |-> salt, sk2p |-> st.sk2p]

----------------------------------------------------------------------------
(* Values of the client: errors, messages, the session.                    *)

\* EData: the enctype ids of the ETYPE-INFO2 in the e-data, <<>> when absent
NoKRBError == [MsgType |-> 0, ErrorCode |-> 0, EData |-> <<>>]

\* a Go error value: nil, an errors.New / fmt.Errorf text, or a KRBError;
\* "panic" stands for a run-time panic, which returns nothing
ErrNil == [kind |-> "nil", text |-> "", krb |-> NoKRBError]
Errorf(text) == [kind |-> "error", text |-> text, krb |-> NoKRBError]
ErrKRBError(krberr) == [kind |-> "krberr", text |-> "", krb |-> krberr]
ErrPanic == [kind |-> "panic", text |-> "", krb |-> NoKRBError]

NoTicket == [TktVNO |-> 0, Realm |-> <<>>, SName |-> <<>>, EncPart |-> <<>>]

\* cl.Session == nil
NoSession ==
  [set |-> FALSE, AuthTime |-> 0, EndTime |-> 0, RenewTill |-> 0, TGT |-> NoTicket,
   SessionKey |-> ZeroKey, SessionKeyExpiration |-> 0]

\* what the preauth branch computed, for the record of the call: the enctype
\* id chosen (0: none yet), whether the keytab lookup failed, the key handed
\* to GetEncryptedData; reached tells that the timestamp was encrypted
NoPreauth ==
  [reached |-> FALSE, chosen |-> 0, lookupErr |-> FALSE, key |-> ZeroKey,
   paTSb |-> <<>>, c |-> <<>>]

NoCall ==
  [op |-> "", in |-> <<>>, err |-> ErrNil, sent |-> <<>>, pa |-> NoPreauth,
   before |-> [Session |-> NoSession, Cache |-> <<>>, ids |-> <<>>]]

IdleClient ==
  /\ configured = FALSE
  /\ Default_tkt_enctype_ids = <<>>
  /\ Keytab = {}
  /\ Session = NoSession
  /\ Cache = <<>>
  /\ call = NoCall

----------------------------------------------------------------------------
(* Inputs of the crypto engine.                                            *)

Key17 == [KeyType |-> AES128_CTS_HMAC_SHA1_96,
          KeyValue |-> [j \in 1..16 |-> (j * 11) % 256]]

Key18 == [KeyType |-> AES256_CTS_HMAC_SHA1_96,
          KeyValue |-> [j \in 1..32 |-> (j * 13 + 5) % 256]]

CryptoKeys == {Key17, Key18, ZeroKey}

\* 0 (use the key directly), 1 AS-REQ timestamp, 3 AS-REP enc-part, 7 authenticator
Usages == {0, 1, 3, 7}

Plaintexts == SeqsUpTo({0, 200}, MaxPtLen)

RandReads ==
  { [err |-> FALSE, c |-> [i \in 1..16 |-> 0]],
    [err |-> FALSE, c |-> [i \in 1..16 |-> (i * 17) % 256]],
    [err |-> TRUE,  c |-> [i \in 1..16 |-> 0]] }

NoEncOut == [done |-> FALSE, err |-> "", ed |-> NoEncryptedData]
NoDecIn  == [key |-> <<>>, pe |-> NoEncryptedData, etype |-> 0, usage |-> 0]
NoDecOut == [done |-> FALSE, kind |-> "", err |-> "", pt |-> <<>>]
NoKeyOut == [done |-> FALSE, kind |-> "", err |-> "", key |-> ZeroKey, etype |-> 0,
             salt |-> <<>>, sk2p |-> <<>>]

\* what a peer or an attacker may hand back for a cipher c: c itself, c with
\* one byte changed in the body or in the mac, or c cut short
Flip(c, i) == [c EXCEPT ![i] = (c[i] + 1) % 256]

Tampered(c) ==
  {c} \cup {Flip(c, i) : i \in {1, Len(c) - 12, Len(c)} \cap (1..Len(c))}
      \cup {SliceTo(c, n) : n \in {0, 5, 12, 20} \cap (0..Len(c))}

\* the zero value of messages.APReq
NoAPReq ==
  [PVNO |-> 0, MsgType |-> 0, APOptions |-> <<>>, Ticket |-> NoTicket,
   Authenticator |-> NoEncryptedData]

\* the zero value of types.Authenticator
NoAuthenticator == [AVNO |-> 0, CRealm |-> <<>>, CName |-> <<>>, CTime |-> 0, CUSec |-> 0]

\* no bytes to decode
NoWire ==
  [ok |-> FALSE, app |-> 0, PVNO |-> 0, MsgType |-> 0, APOptions |-> <<>>,
   Ticket |-> [Class |-> 0, IsCompound |-> FALSE, Tag |-> 0, Bytes |-> <<>>],
   Authenticator |-> NoEncryptedData]

NoAPOut ==
  [newDone |-> FALSE, newErr |-> "", a |-> NoAPReq,
   unDone |-> FALSE, unErr |-> "", u |-> NoAPReq]

IdleAP ==
  /\ apIn = [TGT |-> NoTicket, sessionKey |-> ZeroKey, auth |-> NoAuthenticator,
             marshalOk |-> FALSE, rnd |-> [err |-> TRUE, c |-> <<>>], b |-> NoWire]
  /\ apOut = NoAPOut

NoUsageOut == [done |-> FALSE, kc |-> <<>>, ke |-> <<>>, ki |-> <<>>]

IdleUsage ==
  /\ usIn = <<0, 0>>
  /\ usOut = <<NoUsageOut, NoUsageOut>>

IdleCrypto ==
  /\ encIn = [pt |-> <<>>, key |-> ZeroKey, usage |-> 0, kvno |-> 0,
              rnd |-> [err |-> TRUE, c |-> <<>>]]
  /\ encOut = NoEncOut
  /\ decIn = NoDecIn
  /\ decOut = NoDecOut

IdleKey ==
  /\ keyIn = [passwd |-> <<>>, cn |-> [NameType |-> 0, NameString |-> <<>>],
              realm |-> <<>>, etypeId |-> 0, pas |-> <<>>]
  /\ keyOut = NoKeyOut

InitCrypto ==
  /\ IdleKey
  /\ IdleClient
  /\ IdleAP
  /\ IdleUsage
  /\ encIn \in [pt : Plaintexts, key : CryptoKeys, usage : Usages,
                kvno : {0, 1}, rnd : RandReads]
  /\ encOut = NoEncOut
  /\ decIn = NoDecIn
  /\ decOut = NoDecOut

CallGetEncryptedData ==
  /\ ~encOut.done
  /\ \E r \in {GetEncryptedData(encIn.pt, encIn.key, encIn.usage, encIn.kvno, encIn.rnd)} :
       encOut' = [done |-> TRUE, err |-> r.err, ed |-> r.ed]
  /\ UNCHANGED <<encIn, decIn, decOut>>
  /\ UNCHANGED <<keyVars, clientVars, apVars, usVars>>

\* the receiver decrypts under the key's own etype, with the sender's usage
\* or another one, what the sender produced or what was made of it in transit
CallDecryptEncPart ==
  /\ encOut.done /\ encOut.err = "" /\ ~decOut.done
  /\ \E c \in Tampered(encOut.ed.Cipher), u \in Usages :
       \E in \in {[key |-> encIn.key.KeyValue,
                    pe |-> [encOut.ed EXCEPT !.Cipher = c],
                    etype |-> GetEtype(encIn.key.KeyType).etype,
                    usage |-> u]} :
         \E r \in {DecryptEncPart(in.key, in.pe, in.etype, in.usage)} :
           /\ decIn' = in
           /\ decOut' = [done |-> TRUE, kind |-> r.kind, err |-> r.err, pt |-> r.pt]
  /\ UNCHANGED <<encIn, encOut>>
  /\ UNCHANGED <<keyVars, clientVars, apVars, usVars>>

NextCrypto == CallGetEncryptedData \/ CallDecryptEncPart

SpecCrypto == InitCrypto /\ [][NextCrypto]_vars

----------------------------------------------------------------------------
(* Claims about the crypto engine, checked under SpecCrypto.               *)

EncOk == encOut.done /\ encOut.err = ""

\* confounder || plaintext, the message GetEncryptedData encrypts and signs
EncPadded == encIn.rnd.c \o encIn.pt

EncBody == SliceTo(encOut.ed.Cipher, Len(encOut.ed.Cipher) - 12)

EncMac == SliceFrom(encOut.ed.Cipher, Len(encOut.ed.Cipher) - 12)

\* C6: GetEncryptedData obeys the usage contract: with usage = 0 the key
\* itself is both the encryption key Ke and the HMAC key Ki, with usage > 0
\* Ke = DK(key, usage|0xAA) and Ki = DK(key, usage|0x55).
C6_UsageContract ==
  EncOk =>
    LET e  == encIn.key.KeyType
        kv == encIn.key.KeyValue
        u  == encIn.usage
        Ke == IF u = 0 THEN kv ELSE DeriveKey(e, kv, getUsage(u, 170)).k
        Ki == IF u = 0 THEN kv ELSE DeriveKey(e, kv, getUsage(u, 85)).k
    IN  /\ EncBody = Encrypt(e, Ke, EncPadded).ct
        /\ EncMac = SliceTo(HmacSum(Ki, EncPadded), 12)

\* C7: for every key, usage (0 included), kvno and plaintext P,
\* DecryptEncPart(key, GetEncryptedData(P, key, usage, kvno), etype of key,
\* usage) succeeds and returns exactly P.
C7_RoundTrip ==
  (decOut.done /\ decIn.pe = encOut.ed /\ decIn.usage = encIn.usage)
    => (decOut.kind = "ok" /\ decOut.pt = encIn.pt)

\* the trailing 12 bytes of the cipher DecryptEncPart was given
DecMac == SliceFrom(decIn.pe.Cipher, Len(decIn.pe.Cipher) - 12)

\* the body decrypted under Ke = DK(key, usage|0xAA)
DecPadded ==
  Decrypt(decIn.etype,
          DeriveKey(decIn.etype, decIn.key, getUsage(decIn.usage, 170)).k,
          SliceTo(decIn.pe.Cipher, Len(decIn.pe.Cipher) - 12))

\* the 96-bit HMAC of the decrypted body under Ki = DK(key, usage|0x55)
DecExpectedMac ==
  SliceTo(HmacSum(DeriveKey(decIn.etype, decIn.key, getUsage(decIn.usage, 85)).k,
                  DecPadded.pt), 12)

\* the cipher has a trailing mac and a body that decrypts, and the mac is not
\* the HMAC of the decrypted body
DecMacMismatch ==
  /\ decOut.done
  /\ Len(decIn.pe.Cipher) >= 12
  /\ ~DecPadded.err
  /\ DecMac # DecExpectedMac

\* C8: DecryptEncPart never returns plaintext for a cipher whose trailing
\* 12-byte mac differs from the truncated HMAC, keyed with Ki, of the
\* decrypted confounder || plaintext: it returns the integrity error.
C8_MacMismatchRejected ==
  DecMacMismatch =>
    /\ decOut.kind = "error"
    /\ decOut.err = "integrity verification failed"
    /\ decOut.pt = <<>>

\* a cipher changed in transit (or read under another usage) was rejected
C8_Witness ==
  /\ DecMacMismatch
  /\ decIn.pe.Cipher # encOut.ed.Cipher
  /\ decIn.usage = encIn.usage
  /\ decOut.err = "integrity verification failed"

\* C21: DecryptEncPart returns a value or an error for every EncryptedData
\* and never crashes on a slice out of range, also for a cipher shorter
\* than the 12-byte mac or a decrypted body shorter than the confounder;
\* every cipher it accepts has at least confounder-size + 12 bytes.
C21_ErrorNeverCrash ==
  decOut.done =>
    /\ decOut.kind \in {"ok", "error"}
    /\ decOut.kind = "error" => (decOut.err # "" /\ decOut.pt = <<>>)
    /\ decOut.kind = "ok"
         => Len(decIn.pe.Cipher) >= GetConfounderByteSize(decIn.etype) + 12

----------------------------------------------------------------------------
(* Inputs of GetKeyFromPassword and its specification.                     *)

PAValue(raw, ok, entries) == [raw |-> raw, ok |-> ok, entries |-> entries]

ETypeInfoEntry(etype, salt, s2kparams) ==
  [EType |-> etype, Salt |-> salt, S2KParams |-> s2kparams]

PAEntries ==
  { \* PA-PW-SALT "P"
    [PADataType |-> PA_PW_SALT, PADataValue |-> PAValue(<<80>>, FALSE, <<>>)],
    \* PA-ETYPE-INFO (17, "I") and (18, "J")
    [PADataType |-> PA_ETYPE_INFO,
     PADataValue |-> PAValue(<<1>>, TRUE, <<ETypeInfoEntry(17, <<73>>, <<>>)>>)],
    [PADataType |-> PA_ETYPE_INFO,
     PADataValue |-> PAValue(<<2>>, TRUE, <<ETypeInfoEntry(18, <<74>>, <<>>)>>)],
    \* PA-ETYPE-INFO2 (18, "K", 2 iterations), (17, no salt, no s2kparams),
    \* (18, "L", 0 iterations), (23, "M"), an empty sequence, undecodable bytes
    [PADataType |-> PA_ETYPE_INFO2,
     PADataValue |-> PAValue(<<3>>, TRUE, <<ETypeInfoEntry(18, <<75>>, <<0, 0, 0, 2>>)>>)],
    [PADataType |-> PA_ETYPE_INFO2,
     PADataValue |-> PAValue(<<4>>, TRUE, <<ETypeInfoEntry(17, <<>>, <<>>)>>)],
    [PADataType |-> PA_ETYPE_INFO2,
     PADataValue |-> PAValue(<<5>>, TRUE, <<ETypeInfoEntry(18, <<76>>, <<0, 0, 0, 0>>)>>)],
    [PADataType |-> PA_ETYPE_INFO2,
     PADataValue |-> PAValue(<<6>>, TRUE, <<ETypeInfoEntry(23, <<77>>, <<>>)>>)],
    [PADataType |-> PA_ETYPE_INFO2, PADataValue |-> PAValue(<<7>>, TRUE, <<>>)],
    [PADataType |-> PA_ETYPE_INFO2, PADataValue |-> PAValue(<<8>>, FALSE, <<>>)],
    \* a type GetKeyFromPassword does not look at
    [PADataType |-> PA_ENC_TIMESTAMP, PADataValue |-> PAValue(<<9>>, FALSE, <<>>)] }

Principals ==
  { [NameType |-> 1, NameString |-> << <<117>> >>],
    [NameType |-> 1, NameString |-> << <<104>>, <<97, 98>> >>] }

InitKey ==
  /\ IdleCrypto
  /\ IdleClient
  /\ IdleAP
  /\ IdleUsage
  /\ keyIn \in [passwd : {<<112, 119>>}, cn : Principals, realm : {<<69, 88>>},
                 etypeId : {17, 18, 23}, pas : SeqsUpTo(PAEntries, MaxPAData)]
  /\ keyOut = NoKeyOut

CallGetKeyFromPassword ==
  /\ ~keyOut.done
  /\ \E r \in {GetKeyFromPassword(keyIn.passwd, keyIn.cn, keyIn.realm,
                                    keyIn.etypeId, keyIn.pas)} :
       keyOut' = [done |-> TRUE, kind |-> r.kind, err |-> r.err, key |-> r.key,
                  etype |-> r.etype, salt |-> r.salt, sk2p |-> r.sk2p]
  /\ UNCHANGED keyIn
  /\ UNCHANGED <<cryptoVars, clientVars, apVars, usVars>>

NextKey == CallGetKeyFromPassword

SpecKey == InitKey /\ [][NextKey]_vars

----------------------------------------------------------------------------
(* Claims about GetKeyFromPassword, checked under SpecKey.                 *)

KeyOk == keyOut.done /\ keyOut.kind = "ok"

PAIndices(types) == {i \in 1..Len(keyIn.pas) : keyIn.pas[i].PADataType \in types}

\* the first entry of the only PA-ETYPE-INFO2 of the sequence
TheInfo2 ==
  keyIn.pas[CHOOSE i \in PAIndices({PA_ETYPE_INFO2}) : TRUE].PADataValue.entries[1]

\* C9: PA-DATA is applied by type precedence, whatever the order of the
\* entries: when the sequence holds a PA-ETYPE-INFO2 and an entry of a lower
\* type (PA-ETYPE-INFO, PA-PW-SALT), string-to-key runs with the enctype, the
\* salt and the s2kparams of the PA-ETYPE-INFO2 entry.
C9_Info2Precedence ==
  (/\ KeyOk
   /\ Cardinality(PAIndices({PA_ETYPE_INFO2})) = 1
   /\ PAIndices({PA_ETYPE_INFO, PA_PW_SALT}) # {})
  => /\ keyOut.etype = TheInfo2.EType
     /\ keyOut.salt = IF TheInfo2.Salt = <<>> THEN GetSalt(keyIn.cn, keyIn.realm)
                      ELSE TheInfo2.Salt
     /\ keyOut.sk2p = IF Len(TheInfo2.S2KParams) = 4
                      THEN HexEncodeToString(TheInfo2.S2KParams)
                      ELSE GetDefaultStringToKeyParams(TheInfo2.EType)

\* C10: a key returned without error satisfies I1: its KeyType is the
\* enctype whose string-to-key made the key value, and the value has that
\* enctype's key size.
C10_KeyMatchesEnctype ==
  KeyOk =>
    /\ keyOut.key.KeyType = keyOut.etype
    /\ Len(keyOut.key.KeyValue) = GetKeyByteSize(keyOut.key.KeyType)

\* string-to-key was called: the salt of the record is the one it was given
S2KCalled ==
  keyOut.done /\ (keyOut.kind = "ok" \/ keyOut.err = "Error deriving key from string")

RECURSIVE ConcatAll(_)
ConcatAll(ss) == IF ss = <<>> THEN <<>> ELSE Head(ss) \o ConcatAll(Tail(ss))

\* realm || concat(name-components)
DefaultSalt == keyIn.realm \o ConcatAll(keyIn.cn.NameString)

\* the entries that carry a salt, and the salt of one
SaltIndices == PAIndices({PA_PW_SALT, PA_ETYPE_INFO, PA_ETYPE_INFO2})

SaltOf(pa) ==
  IF pa.PADataType = PA_PW_SALT THEN pa.PADataValue.raw
  ELSE pa.PADataValue.entries[1].Salt

\* the salt the PA-DATA leaves: that of the last entry that carries one
LastSalt ==
  IF SaltIndices = {} THEN <<>>
  ELSE SaltOf(keyIn.pas[CHOOSE i \in SaltIndices : \A j \in SaltIndices : j <= i])

----------------------------------------------------------------------------
(* The collaborators of the client: config, keytab, message codec, reply    *)
(* validation.  A message on the wire is held decoded; Unmarshal accepts   *)
(* it when it is of the expected kind.                                     *)

\* cl.Credentials.Username and cl.Config.LibDefaults.Default_realm: "u", "EX"
Username == <<117>>
Default_realm == <<69, 88>>

\* krbtgt/REALM
KrbtgtName(realm) ==
  [NameType |-> 2, NameString |-> << <<107, 114, 98, 116, 103, 116>>, realm >>]

\* Keytab.GetEncryptionKey: the key of the entry for (principal, realm, kvno,
\* enctype), or an error and the zero key
KeytabGetEncryptionKey(kt, username, realm, kvno, etypeId) ==
  LET hits == {e \in kt : /\ e.Principal = username /\ e.Realm = realm
                          /\ e.KVNO = kvno /\ e.Key.KeyType = etypeId}
  IN  IF hits = {} THEN [err |-> TRUE, key |-> ZeroKey]
      ELSE [err |-> FALSE, key |-> (CHOOSE e \in hits : TRUE).Key]

\* messages.NewASReq: no PA-DATA at first; the nonce is drawn at random
NewASReq(username, realm, nonce) ==
  [MsgType |-> KRB_AS_REQ, PAData |-> <<>>, CName |-> username, Realm |-> realm,
   Nonce |-> nonce]

NoASRep ==
  [MsgType |-> 0, CRealm |-> <<>>, CName |-> <<>>, Ticket |-> NoTicket,
   EncPart |-> NoEncryptedData]

\* ASRep.Unmarshal and KRBError.Unmarshal: the reply is of that message type
ASRepUnmarshal(rb) == rb.kind = "ASREP" /\ rb.rep.MsgType = KRB_AS_REP

KRBErrorUnmarshal(rb) == rb.kind = "KRBERROR"

\* EncKDCRepPart: the session key, the nonce and the times, as bytes
MarshalEncKDCRepPart(p) ==
  <<p.Key.KeyType, p.Nonce, p.KeyExpiration, p.AuthTime, p.EndTime, p.RenewTill>>
    \o p.Key.KeyValue

UnmarshalEncKDCRepPart(b) ==
  IF Len(b) < 6
  THEN [err |-> TRUE,
        part |-> [Key |-> ZeroKey, Nonce |-> 0, KeyExpiration |-> 0, AuthTime |-> 0,
                  EndTime |-> 0, RenewTill |-> 0]]
  ELSE [err |-> FALSE,
        part |-> [Key |-> [KeyType |-> b[1], KeyValue |-> SliceFrom(b, 6)],
                  Nonce |-> b[2], KeyExpiration |-> b[3], AuthTime |-> b[4],
                  EndTime |-> b[5], RenewTill |-> b[6]]]

\* ASRep.DecryptEncPart(cl.Credentials): the long-term key of the enc-part's
\* enctype, usage 3, then the decoding of the plaintext
ASRepDecryptEncPart(ar, kt) ==
  LET look == KeytabGetEncryptionKey(kt, Username, Default_realm, ar.EncPart.KVNO,
                                     ar.EncPart.EType)
      et == GetEtype(ar.EncPart.EType)
      d == DecryptEncPart(look.key.KeyValue, ar.EncPart, et.etype, AS_REP_ENCPART)
      u == UnmarshalEncKDCRepPart(d.pt)
      none == UnmarshalEncKDCRepPart(<<>>).part
  IN  IF look.err \/ ~et.ok THEN [kind |-> "error", part |-> none]
      ELSE IF d.kind # "ok" THEN [kind |-> d.kind, part |-> none]
      ELSE IF u.err THEN [kind |-> "error", part |-> none]
      ELSE [kind |-> "ok", part |-> u.part]

\* ASRep.IsValid: nonce, client name and realm as requested, a krbtgt ticket
ASRepIsValid(ar, part, a) ==
  /\ part.Nonce = a.Nonce
  /\ ar.CName = a.CName
  /\ ar.CRealm = a.Realm
  /\ ar.Ticket.SName = KrbtgtName(a.Realm)

\* sort.Sort(sort.Reverse(sort.IntSlice(s))): s in descending order
RECURSIVE InsertDesc(_, _)
InsertDesc(s, x) ==
  IF s = <<>> THEN <<x>>
  ELSE IF x >= Head(s) THEN <<x>> \o s
  ELSE <<Head(s)>> \o InsertDesc(Tail(s), x)

RECURSIVE SortDesc(_)
SortDesc(s) == IF s = <<>> THEN <<>> ELSE InsertDesc(SortDesc(Tail(s)), Head(s))

----------------------------------------------------------------------------
(* Client.ASExchange (lines 80-154 of the client source).                   *)
(* cl is the client, in what the call gets from outside: the nonce, whether*)
(* Marshal succeeds, the KDC's replies, the timestamp bytes, rand.Read.    *)
(* The result is the error returned, the session and enctype list the call *)
(* leaves, and the requests it sent.                                       *)

ASResult(err, session, ids, sent, pa) ==
  [err |-> err, Session |-> session, ids |-> ids, sent |-> sent, pa |-> pa]

\* ASFinish with the session assigned before the reply is validated
ASFinish_SessionBeforeValidate(cl, ar, a, sent) ==
  LET d == ASRepDecryptEncPart(ar, cl.Keytab)
      session == [set |-> TRUE, AuthTime |-> d.part.AuthTime, EndTime |-> d.part.EndTime,
                  RenewTill |-> d.part.RenewTill, TGT |-> ar.Ticket,
                  SessionKey |-> d.part.Key,
                  SessionKeyExpiration |-> d.part.KeyExpiration]
  IN  IF d.kind = "panic" THEN ASResult(ErrPanic, cl.Session, cl.ids, sent, NoPreauth)
      ELSE IF d.kind # "ok"
        THEN ASResult(Errorf("Error decrypting EncPart of AS_REP"),
                      cl.Session, cl.ids, sent, NoPreauth)
      ELSE IF ~ASRepIsValid(ar, d.part, a)
        THEN ASResult(Errorf("AS_REP is not valid"), session, cl.ids, sent, NoPreauth)
      ELSE ASResult(ErrNil, session, cl.ids, sent, NoPreauth)

\* lines 138-153: decrypt, validate, populate the session
ASFinish(cl, ar, a, sent) ==
  LET d == ASRepDecryptEncPart(ar, cl.Keytab)
  IN  IF d.kind = "panic" THEN ASResult(ErrPanic, cl.Session, cl.ids, sent, NoPreauth)
      ELSE IF d.kind # "ok"
        THEN ASResult(Errorf("Error decrypting EncPart of AS_REP"),
                      cl.Session, cl.ids, sent, NoPreauth)
      ELSE IF ~ASRepIsValid(ar, d.part, a)
        THEN ASResult(Errorf("AS_REP is not valid"), cl.Session, cl.ids, sent, NoPreauth)
      ELSE ASResult(ErrNil,
                    [set |-> TRUE,
                     AuthTime |-> d.part.AuthTime,
                     EndTime |-> d.part.EndTime,
                     RenewTill |-> d.part.RenewTill,
                     TGT |-> ar.Ticket,
                     SessionKey |-> d.part.Key,
                     SessionKeyExpiration |-> d.part.KeyExpiration],
                    cl.ids, sent, NoPreauth)

\* ASPreauth with the PA-DATA appended twice
ASPreauth_AppendTwice(cl, in, a, krberr) ==
  LET sorted == SortDesc(cl.ids)
      et == GetEtype(sorted[1])
      look == KeytabGetEncryptionKey(cl.Keytab, Username, Default_realm, 1, et.etype)
      paEncTS == GetEncryptedData(in.ts.b, look.key, 0, 1, in.rnd)
      pa == [PADataType |-> PA_ENC_TIMESTAMP, PADataValue |-> paEncTS.ed.Cipher]
      a2 == [a EXCEPT !.PAData = Append(Append(@, pa), pa)]
      picked == [NoPreauth EXCEPT !.chosen = sorted[1]]
      looked == [picked EXCEPT !.lookupErr = look.err, !.key = look.key]
      done == [looked EXCEPT !.reached = TRUE, !.paTSb = in.ts.b, !.c = in.rnd.c]
  IN  IF ~in.ts.ok
        THEN ASResult(Errorf("Error creating PAEncTSEnc for Pre-Authentication"),
                      cl.Session, cl.ids, <<a>>, NoPreauth)
      ELSE IF ~et.ok
        THEN ASResult(Errorf("Error creating etype"), cl.Session, sorted, <<a>>, picked)
      ELSE IF paEncTS.err # ""
        THEN ASResult(Errorf("Error encrypting pre-authentication timestamp"),
                      cl.Session, sorted, <<a>>, looked)
      ELSE IF ~in.marshal2
        THEN ASResult(Errorf("Error marshalling AS_REQ"), cl.Session, sorted, <<a>>, done)
      ELSE IF in.reply2.kind = "error"
        THEN ASResult(Errorf("Error sending AS_REQ to KDC"),
                      cl.Session, sorted, <<a, a2>>, done)
      ELSE IF ~ASRepUnmarshal(in.reply2)
        THEN ASResult(Errorf("Could not unmarshal data returned from KDC"),
                      cl.Session, sorted, <<a, a2>>, done)
      ELSE ASResult(ErrKRBError(krberr), cl.Session, sorted, <<a, a2>>, done)

\* ASPreauth that, when the lookup fails, takes any key of the keytab
ASPreauth_AnyKey(cl, in, a, krberr) ==
  LET sorted == SortDesc(cl.ids)
      et == GetEtype(sorted[1])
      look0 == KeytabGetEncryptionKey(cl.Keytab, Username, Default_realm, 1, et.etype)
      look == IF look0.err /\ cl.Keytab # {}
                THEN [err |-> TRUE, key |-> (CHOOSE e \in cl.Keytab : TRUE).Key]
                ELSE look0
      paEncTS == GetEncryptedData(in.ts.b, look.key, 0, 1, in.rnd)
      pa == [PADataType |-> PA_ENC_TIMESTAMP, PADataValue |-> paEncTS.ed.Cipher]
      a2 == [a EXCEPT !.PAData = Append(@, pa)]
      picked == [NoPreauth EXCEPT !.chosen = sorted[1]]
      looked == [picked EXCEPT !.lookupErr = look.err, !.key = look.key]
      done == [looked EXCEPT !.reached = TRUE, !.paTSb = in.ts.b, !.c = in.rnd.c]
  IN  IF ~in.ts.ok
        THEN ASResult(Errorf("Error creating PAEncTSEnc for Pre-Authentication"),
                      cl.Session, cl.ids, <<a>>, NoPreauth)
      ELSE IF ~et.ok
        THEN ASResult(Errorf("Error creating etype"), cl.Session, sorted, <<a>>, picked)
      ELSE IF paEncTS.err # ""
        THEN ASResult(Errorf("Error encrypting pre-authentication timestamp"),
                      cl.Session, sorted, <<a>>, looked)
      ELSE IF ~in.marshal2
        THEN ASResult(Errorf("Error marshalling AS_REQ"), cl.Session, sorted, <<a>>, done)
      ELSE IF in.reply2.kind = "error"
        THEN ASResult(Errorf("Error sending AS_REQ to KDC"),
                      cl.Session, sorted, <<a, a2>>, done)
      ELSE IF ~ASRepUnmarshal(in.reply2)
        THEN ASResult(Errorf("Could not unmarshal data returned from KDC"),
                      cl.Session, sorted, <<a, a2>>, done)
      ELSE ASResult(ErrKRBError(krberr), cl.Session, sorted, <<a, a2>>, done)

\* lines 102-136: the KRBError said KDC_ERR_PREAUTH_REQUIRED
ASPreauth(cl, in, a, krberr) ==
  LET sorted == SortDesc(cl.ids)
      et == GetEtype(sorted[1])
      look == KeytabGetEncryptionKey(cl.Keytab, Username, Default_realm, 1, et.etype)
      paEncTS == GetEncryptedData(in.ts.b, look.key, 0, 1, in.rnd)
      pa == [PADataType |-> PA_ENC_TIMESTAMP, PADataValue |-> paEncTS.ed.Cipher]
      a2 == [a EXCEPT !.PAData = Append(@, pa)]
      picked == [NoPreauth EXCEPT !.chosen = sorted[1]]
      looked == [picked EXCEPT !.lookupErr = look.err, !.key = look.key]
      done == [looked EXCEPT !.reached = TRUE, !.paTSb = in.ts.b, !.c = in.rnd.c]
  IN  IF ~in.ts.ok
        THEN ASResult(Errorf("Error creating PAEncTSEnc for Pre-Authentication"),
                      cl.Session, cl.ids, <<a>>, NoPreauth)
      ELSE IF ~et.ok
        THEN ASResult(Errorf("Error creating etype"), cl.Session, sorted, <<a>>, picked)
      ELSE IF paEncTS.err # ""
        THEN ASResult(Errorf("Error encrypting pre-authentication timestamp"),
                      cl.Session, sorted, <<a>>, looked)
      ELSE IF ~in.marshal2
        THEN ASResult(Errorf("Error marshalling AS_REQ"), cl.Session, sorted, <<a>>, done)
      ELSE IF in.reply2.kind = "error"
        THEN ASResult(Errorf("Error sending AS_REQ to KDC"),
                      cl.Session, sorted, <<a, a2>>, done)
      ELSE IF ~ASRepUnmarshal(in.reply2)
        THEN ASResult(Errorf("Could not unmarshal data returned from KDC"),
                      cl.Session, sorted, <<a, a2>>, done)
      ELSE ASResult(ErrKRBError(krberr), cl.Session, sorted, <<a, a2>>, done)

\* ASExchange with the retry taken on every KRB-ERROR
ASExchange_RetryAnyKRBError(cl, in) ==
  LET a == NewASReq(Username, Default_realm, in.nonce)
  IN  IF ~cl.configured
        THEN ASResult(Errorf("Client is not configured correctly."),
                      cl.Session, cl.ids, <<>>, NoPreauth)
      ELSE IF ~in.marshal1
        THEN ASResult(Errorf("Error marshalling AS_REQ"), cl.Session, cl.ids, <<>>, NoPreauth)
      ELSE IF in.reply1.kind = "error"
        THEN ASResult(Errorf("Error sending AS_REQ to KDC"),
                      cl.Session, cl.ids, <<a>>, NoPreauth)
      ELSE IF ~ASRepUnmarshal(in.reply1)
        THEN IF ~KRBErrorUnmarshal(in.reply1)
               THEN ASResult(Errorf("Could not unmarshal data returned from KDC"),
                             cl.Session, cl.ids, <<a>>, NoPreauth)
             ELSE ASPreauth(cl, in, a, in.reply1.krb)
      ELSE ASFinish(cl, in.reply1.rep, a, <<a>>)

ASExchange(cl, in) ==
  LET a == NewASReq(Username, Default_realm, in.nonce)
  IN  IF ~cl.configured
        THEN ASResult(Errorf("Client is not configured correctly."),
                      cl.Session, cl.ids, <<>>, NoPreauth)
      ELSE IF ~in.marshal1
        THEN ASResult(Errorf("Error marshalling AS_REQ"), cl.Session, cl.ids, <<>>, NoPreauth)
      ELSE IF in.reply1.kind = "error"
        THEN ASResult(Errorf("Error sending AS_REQ to KDC"),
                      cl.Session, cl.ids, <<a>>, NoPreauth)
      ELSE IF ~ASRepUnmarshal(in.reply1)
        THEN IF ~KRBErrorUnmarshal(in.reply1)
               THEN ASResult(Errorf("Could not unmarshal data returned from KDC"),
                             cl.Session, cl.ids, <<a>>, NoPreauth)
             ELSE IF in.reply1.krb.ErrorCode = KDC_ERR_PREAUTH_REQUIRED
               THEN ASPreauth(cl, in, a, in.reply1.krb)
             ELSE ASResult(ErrKRBError(in.reply1.krb), cl.Session, cl.ids, <<a>>, NoPreauth)
      ELSE ASFinish(cl, in.reply1.rep, a, <<a>>)

----------------------------------------------------------------------------
(* NewAPReq and encryptAuthenticator (APReq.go:46-69).  marshalOk tells    *)
(* whether Authenticator.Marshal succeeds, rnd is what rand.Read delivers. *)

\* Authenticator.Marshal: the fields as bytes
MarshalAuthenticator(a) == <<a.AVNO>> \o a.CRealm \o a.CName \o <<a.CTime, a.CUSec>>

\* types.NewKrbFlags: 32 bits, none set
NewKrbFlags == <<0, 0, 0, 0>>

\* encryptAuthenticator with key usage 0: the session key used directly
encryptAuthenticator_Usage0(a, sessionKey, marshalOk, rnd) ==
  IF ~marshalOk THEN [err |-> "Error marshalling authenticator", ed |-> NoEncryptedData]
  ELSE GetEncryptedData(MarshalAuthenticator(a), sessionKey, 0, 0, rnd)

encryptAuthenticator(a, sessionKey, marshalOk, rnd) ==
  IF ~marshalOk THEN [err |-> "Error marshalling authenticator", ed |-> NoEncryptedData]
  ELSE GetEncryptedData(MarshalAuthenticator(a), sessionKey,
                        TGS_REQ_PA_TGS_REQ_AP_REQ_AUTHENTICATOR, 0, rnd)

NewAPReq(TGT, sessionKey, auth, marshalOk, rnd) ==
  LET e == encryptAuthenticator(auth, sessionKey, marshalOk, rnd)
  IN  IF e.err # "" THEN [err |-> "Error creating authenticator for AP_REQ", a |-> NoAPReq]
      ELSE [err |-> "",
            a |-> [PVNO |-> PVNO, MsgType |-> KRB_AP_REQ, APOptions |-> NewKrbFlags,
                   Ticket |-> TGT, Authenticator |-> e.ed]]

----------------------------------------------------------------------------
(* Client.TGSExchange and Client.GetServiceTicket (lines 12-59 of the      *)
(* client source) and their collaborators.                                 *)

\* strings.Split(s, "/"), the separator given as its byte
RECURSIVE SplitFrom(_, _, _, _)
SplitFrom(s, sep, i, cur) ==
  IF i > Len(s) THEN <<cur>>
  ELSE IF s[i] = sep THEN <<cur>> \o SplitFrom(s, sep, i + 1, <<>>)
  ELSE SplitFrom(s, sep, i + 1, Append(cur, s[i]))

Split(s, sep) == SplitFrom(s, sep, 1, <<>>)

NoTGSReq ==
  [MsgType |-> 0, PAData |-> <<>>, CName |-> <<>>, Realm |-> <<>>, SName |-> <<>>,
   Nonce |-> 0, Renewal |-> FALSE]

\* messages.NewTGSReq: a fresh authenticator in an AP-REQ built from the TGT
\* and the session key, carried as PA-TGS-REQ; the body names the service
NewTGSReq(username, realm, TGT, sessionKey, spn, renewal, in) ==
  LET auth == [AVNO |-> PVNO, CRealm |-> realm, CName |-> username,
               CTime |-> in.ctime, CUSec |-> 0]
      ap == NewAPReq(TGT, sessionKey, auth, in.marshalAuth, in.rnd)
  IN  IF ap.err # "" THEN [err |-> TRUE, req |-> NoTGSReq]
      ELSE [err |-> FALSE,
            req |-> [MsgType |-> KRB_TGS_REQ,
                     PAData |-> <<[PADataType |-> PA_TGS_REQ, PADataValue |-> ap.a]>>,
                     CName |-> username, Realm |-> realm, SName |-> spn,
                     Nonce |-> in.nonce, Renewal |-> renewal]]

TGSRepUnmarshal(rb) == rb.kind = "TGSREP" /\ rb.rep.MsgType = KRB_TGS_REP

\* TGSRep.DecryptEncPart(sessionKey): usage 8, then the decoding
TGSRepDecryptEncPart(rep, sessionKey) ==
  LET et == GetEtype(sessionKey.KeyType)
      d == DecryptEncPart(sessionKey.KeyValue, rep.EncPart, et.etype,
                          TGS_REP_ENCPART_SESSION_KEY)
      u == UnmarshalEncKDCRepPart(d.pt)
      none == UnmarshalEncKDCRepPart(<<>>).part
  IN  IF ~et.ok THEN [kind |-> "error", part |-> none]
      ELSE IF d.kind # "ok" THEN [kind |-> d.kind, part |-> none]
      ELSE IF u.err THEN [kind |-> "error", part |-> none]
      ELSE [kind |-> "ok", part |-> u.part]

\* TGSRep.IsValid: nonce and client as requested, a ticket for the service
TGSRepIsValid(rep, part, req) ==
  /\ part.Nonce = req.Nonce
  /\ rep.CName = req.CName
  /\ rep.CRealm = req.Realm
  /\ rep.Ticket.SName = req.SName

TGSResult(err, req, rep, part, sent) ==
  [err |-> err, tgsReq |-> req, tgsRep |-> rep, DecryptedEncPart |-> part, sent |-> sent]

\* lines 34-41: the reply decoded as TGS-REP; d is what DecryptEncPart gave
TGSExchange_Reply(in, req, d) ==
  LET none == UnmarshalEncKDCRepPart(<<>>).part
  IN  IF d.kind = "panic"
        THEN TGSResult(ErrPanic, req, in.reply.rep, none, <<req>>)
      ELSE IF d.kind # "ok"
        THEN TGSResult(Errorf("Error decrypting EncPart of TGS_REP"),
                       req, in.reply.rep, none, <<req>>)
      ELSE IF ~TGSRepIsValid(in.reply.rep, d.part, req)
        THEN TGSResult(Errorf("TGS_REP is not valid"), req, in.reply.rep, d.part, <<req>>)
      ELSE TGSResult(ErrNil, req, in.reply.rep, d.part, <<req>>)

\* lines 19-33: n is what NewTGSReq gave
TGSExchange_Request(cl, in, n) ==
  LET none == UnmarshalEncKDCRepPart(<<>>).part
  IN  IF n.err
        THEN TGSResult(Errorf("Error generating New TGS_REQ"), n.req, NoASRep, none, <<>>)
      ELSE IF ~in.marshal
        THEN TGSResult(Errorf("Error marshalling TGS_REQ"), n.req, NoASRep, none, <<>>)
      ELSE IF in.reply.kind = "error"
        THEN TGSResult(Errorf("Error sending TGS_REQ to KDC"), n.req, NoASRep, none, <<n.req>>)
      ELSE IF ~TGSRepUnmarshal(in.reply)
        THEN TGSResult(Errorf("Error unmarshalling TGS_REP"), n.req, NoASRep, none, <<n.req>>)
      ELSE TGSExchange_Reply(in, n.req,
                             TGSRepDecryptEncPart(in.reply.rep, cl.Session.SessionKey))

\* TGSExchange without the test of cl.Session: a nil session is dereferenced
TGSExchange_NoSessionCheck(cl, spn, renewal, in) ==
  IF ~cl.Session.set
  THEN TGSResult(ErrPanic, NoTGSReq, NoASRep, UnmarshalEncKDCRepPart(<<>>).part, <<>>)
  ELSE TGSExchange_Request(cl, in,
                           NewTGSReq(Username, Default_realm, cl.Session.TGT,
                                     cl.Session.SessionKey, spn, renewal, in))

TGSExchange(cl, spn, renewal, in) ==
  IF ~cl.Session.set
  THEN TGSResult(Errorf("Error client does not have a session. Client needs to login first"),
                 NoTGSReq, NoASRep, UnmarshalEncKDCRepPart(<<>>).part, <<>>)
  ELSE TGSExchange_Request(cl, in,
                           NewTGSReq(Username, Default_realm, cl.Session.TGT,
                                     cl.Session.SessionKey, spn, renewal, in))

\* Cache.AddEntry: the entry of the ticket's service name is set
AddEntry(cache, tkt, authTime, endTime, renewTill) ==
  (tkt.SName :> [Ticket |-> tkt, AuthTime |-> authTime, EndTime |-> endTime,
                 RenewTill |-> renewTill]) @@ cache

\* GetServiceTicket_Add without the return on error
GetServiceTicket_AddAlways(cl, r) ==
  [err |-> r.err,
   Cache |-> AddEntry(cl.Cache, r.tgsRep.Ticket, r.DecryptedEncPart.AuthTime,
                      r.DecryptedEncPart.EndTime, r.DecryptedEncPart.RenewTill),
   sent |-> r.sent]

\* lines 54-58: r is what TGSExchange gave
GetServiceTicket_Add(cl, r) ==
  IF r.err # ErrNil THEN [err |-> r.err, Cache |-> cl.Cache, sent |-> r.sent]
  ELSE [err |-> ErrNil,
        Cache |-> AddEntry(cl.Cache, r.tgsRep.Ticket, r.DecryptedEncPart.AuthTime,
                           r.DecryptedEncPart.EndTime, r.DecryptedEncPart.RenewTill),
        sent |-> r.sent]

GetServiceTicket(cl, spn, in) ==
  GetServiceTicket_Add(cl,
    TGSExchange(cl, [NameType |-> KRB_NT_PRINCIPAL, NameString |-> Split(spn, 47)],
                FALSE, in))

----------------------------------------------------------------------------
(* The KDC and the transport, as the client sees them: what may come back  *)
(* for a request.  The KDC encrypts as RFC 3961 says, under                *)
(* Ke = DK(key, usage|0xAA) with the HMAC under Ki = DK(key, usage|0x55).  *)

KDCEncrypt(key, usage, pt, conf) ==
  LET e == key.KeyType
      ke == DeriveKey(e, key.KeyValue, getUsage(usage, 170)).k
      ki == DeriveKey(e, key.KeyValue, getUsage(usage, 85)).k
  IN  Encrypt(e, ke, conf \o pt).ct \o SliceTo(HmacSum(ki, conf \o pt), 12)

KDCConfounder == [i \in 1..16 |-> (i * 29 + 3) % 256] \o <<>>

\* the session key the KDC issues
SessionKey1 ==
  [KeyType |-> AES128_CTS_HMAC_SHA1_96, KeyValue |-> [j \in 1..16 |-> (j * 7 + 3) % 256] \o <<>>]

\* the nonce of the client's requests
ClientNonce == 7

\* an AS-REP for the user, its enc-part under the long-term key `key`;
\* how = "good", or what is wrong with it
KDCASRep(key, authTime, how) ==
  LET part == [Key |-> SessionKey1,
               Nonce |-> IF how = "nonce" THEN ClientNonce + 1 ELSE ClientNonce,
               KeyExpiration |-> 90, AuthTime |-> authTime,
               EndTime |-> authTime + 10, RenewTill |-> authTime + 20]
      good == KDCEncrypt(key, AS_REP_ENCPART, MarshalEncKDCRepPart(part), KDCConfounder)
      cipher == IF how = "tampered" THEN [good EXCEPT ![20] = (@ + 1) % 256]
                ELSE IF how = "short" THEN SliceTo(good, 5)
                ELSE good
  IN  [kind |-> "ASREP", how |-> how, krb |-> NoKRBError,
       rep |-> [MsgType |-> KRB_AS_REP, CRealm |-> Default_realm, CName |-> Username,
                Ticket |-> [TktVNO |-> 5, Realm |-> Default_realm,
                            SName |-> KrbtgtName(Default_realm), EncPart |-> <<authTime>>],
                EncPart |-> [EType |-> key.KeyType, Cipher |-> cipher, KVNO |-> 1]]]

TransportError == [kind |-> "error", how |-> "", krb |-> NoKRBError, rep |-> NoASRep]

\* bytes that are neither an AS-REP nor a KRB-ERROR
OtherReply == [kind |-> "OTHER", how |-> "", krb |-> NoKRBError, rep |-> NoASRep]

KRBErrorReply(code) ==
  [kind |-> "KRBERROR", how |-> "",
   krb |-> [MsgType |-> 30, ErrorCode |-> code, EData |-> <<>>], rep |-> NoASRep]

PreauthRequired == KRBErrorReply(KDC_ERR_PREAUTH_REQUIRED)

\* KRB-ERROR 25 whose e-data carries an ETYPE-INFO2 offering the enctypes ids
PreauthRequiredOffering(ids) ==
  [PreauthRequired EXCEPT !.krb.EData = ids]

ASReplies ==
  { TransportError, OtherReply, PreauthRequired,
    KRBErrorReply(KDC_ERR_C_PRINCIPAL_UNKNOWN),
    KDCASRep(Key18, 2, "good"),
    KDCASRep(Key18, 2, "tampered"), KDCASRep(Key18, 2, "nonce"),
    KDCASRep(Key18, 2, "short") }

\* types.GetPAEncTSEncAsnMarshalled: the marshalled timestamp, or an error
TimestampOk == [ok |-> TRUE, b |-> <<20, 26, 11>>]
TimestampErr == [ok |-> FALSE, b |-> <<>>]

RandOk == [err |-> FALSE, c |-> [i \in 1..16 |-> (i * 17) % 256] \o <<>>]
RandErr == [err |-> TRUE, c |-> [i \in 1..16 |-> 0] \o <<>>]

\* the inputs of one ASExchange; what a run does not reach keeps this value
ASInput0 ==
  [nonce |-> ClientNonce, marshal1 |-> TRUE, reply1 |-> TransportError,
   ts |-> TimestampOk, rnd |-> RandOk, marshal2 |-> TRUE, reply2 |-> TransportError]

ASInputs ==
  {[ASInput0 EXCEPT !.marshal1 = FALSE]}
    \cup {[ASInput0 EXCEPT !.reply1 = r] : r \in ASReplies \ {PreauthRequired}}
    \cup {[ASInput0 EXCEPT !.reply1 = PreauthRequired, !.ts = TimestampErr],
          [ASInput0 EXCEPT !.reply1 = PreauthRequired, !.rnd = RandErr],
          [ASInput0 EXCEPT !.reply1 = PreauthRequired, !.marshal2 = FALSE]}
    \cup {[ASInput0 EXCEPT !.reply1 = PreauthRequired, !.reply2 = r] : r \in ASReplies}
    \cup {[ASInput0 EXCEPT !.reply1 = PreauthRequiredOffering(<<AES128_CTS_HMAC_SHA1_96>>),
                            !.reply2 = r] :
             r \in {TransportError, KDCASRep(Key18, 2, "good")}}

KeytabEntry(key) ==
  [Principal |-> Username, Realm |-> Default_realm, KVNO |-> 1, Key |-> key]

\* the service principal names asked for: "H/w" and "c/d"
SPNs == {<<72, 47, 119>>, <<99, 47, 100>>}

\* the session key the KDC issues for a service
ServiceKey1 ==
  [KeyType |-> AES128_CTS_HMAC_SHA1_96, KeyValue |-> [j \in 1..16 |-> (j * 5 + 1) % 256] \o <<>>]

\* a TGS-REP with a ticket for the service `spn`, its enc-part under the
\* TGT session key; how = "good", or what is wrong with it
KDCTGSRep(spn, how) ==
  LET part == [Key |-> ServiceKey1,
               Nonce |-> IF how = "nonce" THEN ClientNonce + 1 ELSE ClientNonce,
               KeyExpiration |-> 90, AuthTime |-> 3, EndTime |-> 13, RenewTill |-> 23]
      good == KDCEncrypt(SessionKey1, TGS_REP_ENCPART_SESSION_KEY,
                         MarshalEncKDCRepPart(part), KDCConfounder)
      cipher == IF how = "tampered" THEN [good EXCEPT ![20] = (@ + 1) % 256] ELSE good
      sname == [NameType |-> KRB_NT_PRINCIPAL, NameString |-> Split(spn, 47)]
  IN  [kind |-> "TGSREP", how |-> how, krb |-> NoKRBError,
       rep |-> [MsgType |-> KRB_TGS_REP, CRealm |-> Default_realm, CName |-> Username,
                Ticket |-> [TktVNO |-> 5, Realm |-> Default_realm, SName |-> sname,
                            EncPart |-> <<how = "good">>],
                EncPart |-> [EType |-> SessionKey1.KeyType, Cipher |-> cipher, KVNO |-> 0]]]

TGSReplies ==
  { TransportError, KRBErrorReply(KDC_ERR_C_PRINCIPAL_UNKNOWN),
    KDCTGSRep(<<72, 47, 119>>, "tampered") }
    \cup {KDCTGSRep(spn, "good") : spn \in SPNs}

\* the inputs of one TGSExchange
TGSInput0 ==
  [nonce |-> ClientNonce, ctime |-> 4, marshalAuth |-> TRUE, rnd |-> RandOk,
   marshal |-> TRUE, reply |-> TransportError]

TGSInputs ==
  {[TGSInput0 EXCEPT !.marshalAuth = FALSE], [TGSInput0 EXCEPT !.rnd = RandErr],
   [TGSInput0 EXCEPT !.marshal = FALSE]}
    \cup {[TGSInput0 EXCEPT !.reply = r] : r \in TGSReplies}

----------------------------------------------------------------------------
(* The client as a state machine: one action per exported call.            *)

Client ==
  [configured |-> configured, ids |-> Default_tkt_enctype_ids, Keytab |-> Keytab,
   Session |-> Session, Cache |-> Cache]

Before == [Session |-> Session, Cache |-> Cache, ids |-> Default_tkt_enctype_ids]

Init ==
  /\ IdleCrypto
  /\ IdleKey
  /\ IdleAP
  /\ IdleUsage
  /\ configured \in BOOLEAN
  /\ Default_tkt_enctype_ids \in {<<17, 18>>, <<17, 23>>}
  /\ Keytab \in {{KeytabEntry(Key17), KeytabEntry(Key18)}, {KeytabEntry(Key17)}}
  /\ Session = NoSession
  /\ Cache = <<>>
  /\ call = NoCall

\* cl.Login() / cl.ASExchange()
Login ==
  /\ call.err.kind # "panic"
  /\ \E in \in ASInputs :
       \E r \in {ASExchange(Client, in)} :
           /\ Session' = r.Session
           /\ Default_tkt_enctype_ids' = r.ids
           /\ call' = [op |-> "ASExchange", in |-> in, err |-> r.err, sent |-> r.sent,
                       pa |-> r.pa, before |-> Before]
  /\ UNCHANGED <<configured, Keytab, Cache>>
  /\ UNCHANGED <<cryptoVars, keyVars, apVars, usVars>>

\* cl.TGSExchange(spn, renewal)
CallTGSExchange ==
  /\ call.err.kind # "panic"
  /\ \E spn \in SPNs, renewal \in BOOLEAN, in \in TGSInputs :
       \E r \in {TGSExchange(Client,
                              [NameType |-> KRB_NT_PRINCIPAL, NameString |-> Split(spn, 47)],
                              renewal, in)} :
           call' = [op |-> "TGSExchange",
                    in |-> [spn |-> spn, renewal |-> renewal, tgs |-> in],
                    err |-> r.err, sent |-> r.sent, pa |-> NoPreauth, before |-> Before]
  /\ UNCHANGED <<configured, Default_tkt_enctype_ids, Keytab, Session, Cache>>
  /\ UNCHANGED <<cryptoVars, keyVars, apVars, usVars>>

\* cl.GetServiceTicket(spn)
CallGetServiceTicket ==
  /\ call.err.kind # "panic"
  /\ \E spn \in SPNs, in \in TGSInputs :
       \E r \in {GetServiceTicket(Client, spn, in)} :
           /\ Cache' = r.Cache
           /\ call' = [op |-> "GetServiceTicket",
                       in |-> [spn |-> spn, renewal |-> FALSE, tgs |-> in],
                       err |-> r.err, sent |-> r.sent, pa |-> NoPreauth, before |-> Before]
  /\ UNCHANGED <<configured, Default_tkt_enctype_ids, Keytab, Session>>
  /\ UNCHANGED <<cryptoVars, keyVars, apVars, usVars>>

Next == Login \/ CallTGSExchange \/ CallGetServiceTicket

Spec == Init /\ [][Next]_vars

----------------------------------------------------------------------------
(* Claims about ASExchange, checked under Spec.                            *)

ASCall == call.op = "ASExchange"

\* the first request was sent and the KDC answered it with a KRB-ERROR
FirstReplyKRBError == ASCall /\ Len(call.sent) >= 1 /\ call.in.reply1.kind = "KRBERROR"

\* r is an AS-REP the KDC made for this client and nobody changed: its
\* enc-part is under a long-term key of the client's keytab, with the
\* nonce of the request
GoodASRep(r) ==
  /\ r.kind = "ASREP"
  /\ r.how = "good"
  /\ \E e \in Keytab : e.Key.KeyType = r.rep.EncPart.EType

\* the session an AS-REP carries
SessionOf(r) ==
  LET part == ASRepDecryptEncPart(r.rep, Keytab).part
  IN  [set |-> TRUE, AuthTime |-> part.AuthTime, EndTime |-> part.EndTime,
       RenewTill |-> part.RenewTill, TGT |-> r.rep.Ticket, SessionKey |-> part.Key,
       SessionKeyExpiration |-> part.KeyExpiration]

\* C1: when the first reply is KRB-ERROR 25 and the reply to the retried
\* AS-REQ is an AS-REP that decrypts under the client key and is valid,
\* ASExchange returns no error and the Session is populated from that AS-REP.
C1_PreauthRetryLogsIn ==
  (/\ FirstReplyKRBError
   /\ call.in.reply1.krb.ErrorCode = KDC_ERR_PREAUTH_REQUIRED
   /\ Len(call.sent) = 2
   /\ GoodASRep(call.in.reply2))
  => (call.err = ErrNil /\ Session = SessionOf(call.in.reply2))

\* C2: when the first reply is a KRB-ERROR with a code other than 25,
\* ASExchange returns that KRB-ERROR itself, sends no second request and
\* leaves the session as it was.
C2_OtherKRBErrorSurfaces ==
  (FirstReplyKRBError /\ call.in.reply1.krb.ErrorCode # KDC_ERR_PREAUTH_REQUIRED)
  => /\ call.err = ErrKRBError(call.in.reply1.krb)
     /\ call.err.krb.ErrorCode = call.in.reply1.krb.ErrorCode
     /\ Len(call.sent) = 1
     /\ Session = call.before.Session

\* KRB-ERROR 6 came back to a client that was logged in
C2_Witness ==
  /\ FirstReplyKRBError
  /\ call.in.reply1.krb.ErrorCode = KDC_ERR_C_PRINCIPAL_UNKNOWN
  /\ call.err.kind = "krberr"
  /\ call.before.Session.set

\* C3: whenever ASExchange returns an error, Session and ticket cache are
\* what they were before the call; a call that returns nil got, as its
\* first reply, an AS-REP that decrypts and is valid, and left its session.
C3_ErrorLeavesSessionAndCache ==
  /\ (ASCall /\ call.err.kind \in {"error", "krberr"})
        => (Session = call.before.Session /\ Cache = call.before.Cache)
  /\ (ASCall /\ (Session # call.before.Session \/ call.err = ErrNil))
        => /\ call.err = ErrNil
           /\ GoodASRep(call.in.reply1)
           /\ Session = SessionOf(call.in.reply1)

\* an AS-REP with one bit flipped was refused by a client that was logged in
\* and held a service ticket
C3_Witness ==
  /\ ASCall
  /\ call.in.reply1.how = "tampered"
  /\ call.err = Errorf("Error decrypting EncPart of AS_REP")
  /\ call.before.Session.set
  /\ call.before.Cache # <<>>
  /\ Session = call.before.Session
  /\ Cache = call.before.Cache

HasPAEncTimestamp(a) ==
  \E i \in 1..Len(a.PAData) : a.PAData[i].PADataType = PA_ENC_TIMESTAMP

\* C4: the transport is called at most twice in one ASExchange; the first
\* AS-REQ has no PA-ENC-TIMESTAMP; a second is sent only after KRB-ERROR 25
\* and is the first with exactly one PA-ENC-TIMESTAMP appended; a second
\* reply that is no AS-REP ends the exchange with an error.
C4_AtMostOneRetry ==
  ASCall =>
    /\ Len(call.sent) <= 2
    /\ (Len(call.sent) >= 1 => ~HasPAEncTimestamp(call.sent[1]))
    /\ (Len(call.sent) = 2 =>
          /\ call.in.reply1.kind = "KRBERROR"
          /\ call.in.reply1.krb.ErrorCode = KDC_ERR_PREAUTH_REQUIRED
          /\ Len(call.sent[2].PAData) = Len(call.sent[1].PAData) + 1
          /\ call.sent[2].PAData[Len(call.sent[2].PAData)].PADataType = PA_ENC_TIMESTAMP
          /\ [call.sent[2] EXCEPT !.PAData = SliceTo(@, Len(@) - 1)] = call.sent[1])
    /\ ((Len(call.sent) = 2 /\ call.in.reply2.kind # "ASREP")
          => call.err.kind \in {"error", "krberr"})

\* the retried request was answered by preauth-required again
C4_Witness ==
  /\ ASCall
  /\ Len(call.sent) = 2
  /\ call.in.reply2 = PreauthRequired
  /\ call.err.kind = "error"

\* C5: the PA-ENC-TIMESTAMP of the retry is the encrypt-with-integrity of
\* the marshalled timestamp under the long-term key with key usage 1: Ke and
\* Ki are both derived from usage 1.
C5_TimestampUnderUsage1 ==
  (ASCall /\ Len(call.sent) = 2)
  => call.sent[2].PAData[Len(call.sent[2].PAData)].PADataValue
       = KDCEncrypt(call.pa.key, AS_REQ_PA_ENC_TIMESTAMP, call.pa.paTSb, call.pa.c)

\* the elements of a sequence
Range(s) == {s[i] : i \in 1..Len(s)}

\* cryptographic strength of an enctype id: AES256 over AES128 over RC4-HMAC
Strength(id) ==
  IF id = AES256_CTS_HMAC_SHA1_96 THEN 3
  ELSE IF id = AES128_CTS_HMAC_SHA1_96 THEN 2
  ELSE IF id = 23 THEN 1
  ELSE 0

\* the enctypes the retry may choose from: the configured ones, and among
\* them those the KDC offered when the KRB-ERROR carries an ETYPE-INFO2
RetryCandidates ==
  LET offered == call.in.reply1.krb.EData
  IN  IF offered = <<>> THEN Range(call.before.ids)
      ELSE Range(call.before.ids) \cap Range(offered)

\* C11: the enctype chosen for the PA-ENC-TIMESTAMP key is the strongest of
\* the configured default-tkt-enctypes that, when the KRB-ERROR carries an
\* ETYPE-INFO2, the KDC also listed there; an enctype the KDC did not offer
\* is never chosen.
C11_StrongestCommonEnctype ==
  (ASCall /\ call.pa.chosen # 0)
  => /\ call.pa.chosen \in RetryCandidates
     /\ \A e \in RetryCandidates : Strength(call.pa.chosen) >= Strength(e)

----------------------------------------------------------------------------
(* Claims about TGSExchange and GetServiceTicket, checked under Spec.      *)

TGSCall == call.op \in {"TGSExchange", "GetServiceTicket"}

\* the cache entry a TGS-REP stands for: its ticket with the times of its
\* enc-part, read under the session key the call held
EntryOf(rep) ==
  LET part == TGSRepDecryptEncPart(rep, call.before.Session.SessionKey).part
  IN  [Ticket |-> rep.Ticket, AuthTime |-> part.AuthTime, EndTime |-> part.EndTime,
       RenewTill |-> part.RenewTill]

\* the cache holds the entry of the TGS-REP
Cached(cache, rep) ==
  /\ rep.Ticket.SName \in DOMAIN cache
  /\ cache[rep.Ticket.SName] = EntryOf(rep)

\* C13: after a TGSExchange that returns without error, the ticket of the
\* returned TGS-REP, with its auth-time, end-time and renew-till, is in the
\* client's ticket cache.
C13_TGSExchangeCaches ==
  (call.op = "TGSExchange" /\ call.err = ErrNil)
  => Cached(Cache, call.in.tgs.reply.rep)

\* C14: GetServiceTicket adds exactly one cache entry, that of the TGS-REP,
\* when the exchange succeeds: the entry of the ticket's service name is
\* set and every other entry is as before; it leaves the cache unchanged
\* when the exchange fails at any step; it never modifies the Session.
C14_GetServiceTicketCache ==
  call.op = "GetServiceTicket" =>
    /\ Session = call.before.Session
    /\ call.err # ErrNil => Cache = call.before.Cache
    /\ call.err = ErrNil =>
         LET rep == call.in.tgs.reply.rep
         IN  /\ Cached(Cache, rep)
             /\ DOMAIN Cache = DOMAIN call.before.Cache \cup {rep.Ticket.SName}
             /\ \A k \in DOMAIN call.before.Cache :
                   k # rep.Ticket.SName => Cache[k] = call.before.Cache[k]

\* a second service ticket was added to a cache that held one
C14_Witness ==
  /\ call.op = "GetServiceTicket"
  /\ call.err = ErrNil
  /\ Cardinality(DOMAIN call.before.Cache) = 1
  /\ Cardinality(DOMAIN Cache) = 2
  /\ Cached(Cache, call.in.tgs.reply.rep)

\* the AP-REQ a sent TGS-REQ carries as PA-TGS-REQ
APReqOf(req) == req.PAData[1].PADataValue

\* the AP-REQ holds the TGT of session s and an authenticator that reads
\* under the session key of s with usage 7
BuiltFrom(req, s) ==
  /\ Len(req.PAData) = 1
  /\ req.PAData[1].PADataType = PA_TGS_REQ
  /\ APReqOf(req).Ticket = s.TGT
  /\ DecryptEncPart(s.SessionKey.KeyValue, APReqOf(req).Authenticator,
                    s.SessionKey.KeyType,
                    TGS_REQ_PA_TGS_REQ_AP_REQ_AUTHENTICATOR).kind = "ok"

\* a TGS call without a session is an error and sends nothing; what a TGS
\* call sends is one TGS-REQ built from the session the client holds
TGSNeedsSession ==
  TGSCall =>
    /\ ~call.before.Session.set
         => (call.err.kind = "error" /\ call.sent = <<>>)
    /\ call.sent # <<>>
         => /\ Session.set
            /\ Session = call.before.Session
            /\ Len(call.sent) = 1
            /\ call.sent[1].MsgType = KRB_TGS_REQ
            /\ BuiltFrom(call.sent[1], Session)

\* the session is set, and changed, only by an ASExchange that returns nil
SessionFromAS ==
  Session' # Session => (call'.op = "ASExchange" /\ call'.err = ErrNil /\ Session'.set)

\* C15: a TGS-REQ is sent only while the client holds a Session that an
\* earlier successful AS exchange established: a TGS call without a Session
\* returns an error without calling the transport, and every TGS-REQ sent
\* is built from the current Session's TGT and session key.
C15_TGSAfterAS ==
  /\ [](TGSNeedsSession /\ (Session.set \/ Session = NoSession))
  /\ [][SessionFromAS]_vars

\* a TGS-REQ went out from a logged-in client; one was refused before login
C15_Witness ==
  /\ TGSCall
  /\ Len(call.sent) = 1
  /\ call.before.Session.set
  /\ BuiltFrom(call.sent[1], Session)

----------------------------------------------------------------------------
(* APReq.Marshal and APReq.Unmarshal (APReq.go:71-115).  The bytes of an   *)
(* AP-REQ are modelled by what the ASN.1 decoder finds in them: whether    *)
(* they parse, the application tag, the fields, and the [3] element as a   *)
(* raw value whose content is the encoding of the ticket.                  *)

\* asnAppTag.APREQ
APREQ == 14

\* one length-prefixed byte string
LenPrefixed(x) == <<Len(x)>> \o x

\* Ticket.Marshal: [APPLICATION 1], then the fields
MarshalTicket(t) ==
  <<97, t.TktVNO>> \o LenPrefixed(t.Realm)
    \o <<t.SName.NameType, Len(t.SName.NameString)>>
    \o ConcatAll([i \in 1..Len(t.SName.NameString) |->
                    LenPrefixed(t.SName.NameString[i])])
    \o LenPrefixed(t.EncPart)

\* the tickets a peer may hold
APTickets ==
  {[TktVNO |-> 5, Realm |-> Default_realm, SName |-> KrbtgtName(Default_realm),
    EncPart |-> e] : e \in {<<2>>, <<2, 9>>}}

\* types.UnmarshalTicket: the ticket these bytes encode, or an error
UnmarshalTicket(b) ==
  IF \E t \in APTickets : MarshalTicket(t) = b
  THEN [err |-> FALSE, t |-> CHOOSE t \in APTickets : MarshalTicket(t) = b]
  ELSE [err |-> TRUE, t |-> NoTicket]

\* APReq.Marshal (lines 91-115)
APReqMarshal(a) ==
  [ok |-> TRUE, app |-> APREQ, PVNO |-> a.PVNO, MsgType |-> a.MsgType,
   APOptions |-> a.APOptions,
   Ticket |-> [Class |-> 2, IsCompound |-> TRUE, Tag |-> 3,
               Bytes |-> MarshalTicket(a.Ticket)],
   Authenticator |-> a.Authenticator]

\* asn1.UnmarshalWithParams(b, &m, "application,explicit,tag:14")
Asn1UnmarshalAPReq(b) == b.ok /\ b.app = APREQ /\ b.Ticket.Tag = 3

\* APReq.Unmarshal without the test of the msg-type
APReqUnmarshal_AnyMsgType(a, b) ==
  LET t == UnmarshalTicket(b.Ticket.Bytes)
      a1 == [PVNO |-> b.PVNO, MsgType |-> b.MsgType, APOptions |-> b.APOptions,
             Ticket |-> t.t, Authenticator |-> b.Authenticator]
  IN  IF ~Asn1UnmarshalAPReq(b) THEN [err |-> "asn1: structure error", a |-> a]
      ELSE IF t.err THEN [err |-> "Error unmarshalling ticket in AP_REQ", a |-> a1]
      ELSE [err |-> "", a |-> a1]

\* APReq.Unmarshal (lines 71-89) on the receiver a
APReqUnmarshal(a, b) ==
  LET t == UnmarshalTicket(b.Ticket.Bytes)
      a1 == [PVNO |-> b.PVNO, MsgType |-> b.MsgType, APOptions |-> b.APOptions,
             Ticket |-> t.t, Authenticator |-> b.Authenticator]
  IN  IF ~Asn1UnmarshalAPReq(b) THEN [err |-> "asn1: structure error", a |-> a]
      ELSE IF b.MsgType # KRB_AP_REQ
        THEN [err |-> "Message ID does not indicate a KRB_AS_REP", a |-> a]
      ELSE IF t.err THEN [err |-> "Error unmarshalling ticket in AP_REQ", a |-> a1]
      ELSE [err |-> "", a |-> a1]

\* session keys: two good ones, the zero key, an unknown enctype, a key of
\* the wrong length
APKeys ==
  {SessionKey1, Key18, ZeroKey,
   [KeyType |-> 23, KeyValue |-> SessionKey1.KeyValue],
   [KeyType |-> AES128_CTS_HMAC_SHA1_96, KeyValue |-> <<1, 2, 3>>]}

APAuthenticators ==
  {[AVNO |-> PVNO, CRealm |-> Default_realm, CName |-> Username, CTime |-> t, CUSec |-> 0]
     : t \in {4, 6}}

\* msg-types on the wire: AS-REQ .. AP-REP, KRB-ERROR, and none
WireMsgTypes == {0, KRB_AS_REQ, KRB_AS_REP, KRB_TGS_REQ, KRB_TGS_REP, KRB_AP_REQ, 15, 30}

\* what may arrive in place of the bytes w of an AP-REQ
Wires(w) ==
  {[w EXCEPT !.MsgType = mt, !.PVNO = pv] : mt \in WireMsgTypes, pv \in {4, 5}}
    \cup {[w EXCEPT !.APOptions = <<32, 0, 0, 0>>], [w EXCEPT !.ok = FALSE],
          [w EXCEPT !.app = 11], [w EXCEPT !.Ticket.Bytes = <<97>>],
          [w EXCEPT !.Ticket.Bytes = <<97>>, !.MsgType = KRB_AS_REP]}

InitAP ==
  /\ IdleCrypto
  /\ IdleKey
  /\ IdleClient
  /\ IdleUsage
  /\ apIn \in [TGT : APTickets, sessionKey : APKeys, auth : APAuthenticators,
                marshalOk : BOOLEAN, rnd : {RandOk, RandErr}, b : {NoWire}]
  /\ apOut = NoAPOut

CallNewAPReq ==
  /\ ~apOut.newDone
  /\ \E r \in {NewAPReq(apIn.TGT, apIn.sessionKey, apIn.auth, apIn.marshalOk, apIn.rnd)} :
       apOut' = [apOut EXCEPT !.newDone = TRUE, !.newErr = r.err, !.a = r.a]
  /\ UNCHANGED apIn
  /\ UNCHANGED <<cryptoVars, keyVars, clientVars, usVars>>

\* the receiver decodes what the sender's AP-REQ, or the ticket alone in a
\* fresh AP-REQ, became on the wire
CallAPReqUnmarshal ==
  /\ apOut.newDone /\ ~apOut.unDone
  /\ \E b \in Wires(APReqMarshal([apOut.a EXCEPT !.Ticket = apIn.TGT])) :
       \E r \in {APReqUnmarshal(NoAPReq, b)} :
         /\ apIn' = [apIn EXCEPT !.b = b]
         /\ apOut' = [apOut EXCEPT !.unDone = TRUE, !.unErr = r.err, !.u = r.a]
  /\ UNCHANGED <<cryptoVars, keyVars, clientVars, usVars>>

NextAP == CallNewAPReq \/ CallAPReqUnmarshal

SpecAP == InitAP /\ [][NextAP]_vars

----------------------------------------------------------------------------
(* Claims about NewAPReq and APReq.Unmarshal (checked under SpecAP).       *)

\* C16: a successful NewAPReq(TGT, sessionKey, auth) returns PVNO 5,
\* msg-type 14, no ap-option set, the given TGT as Ticket, and as
\* Authenticator the marshalled authenticator encrypted with integrity
\* under sessionKey with key usage 7, tagged with sessionKey's enctype;
\* when marshalling or encryption fails it returns an error.
C16_NewAPReq ==
  apOut.newDone =>
    /\ apOut.newErr = ""
         => /\ apOut.a.PVNO = 5
            /\ apOut.a.MsgType = 14
            /\ \A i \in DOMAIN apOut.a.APOptions : apOut.a.APOptions[i] = 0
            /\ apOut.a.Ticket = apIn.TGT
            /\ apOut.a.Authenticator.EType = apIn.sessionKey.KeyType
            /\ apOut.a.Authenticator.Cipher =
                 KDCEncrypt(apIn.sessionKey, 7, MarshalAuthenticator(apIn.auth),
                            apIn.rnd.c)
    /\ ( \/ ~apIn.marshalOk
         \/ apIn.rnd.err
         \/ apIn.sessionKey.KeyType \notin {17, 18}
         \/ ~ValidCipherKey(apIn.sessionKey.KeyValue) )
         => apOut.newErr # ""

C16_Witness ==
  /\ apOut.newDone /\ apOut.newErr = ""
  /\ apIn.sessionKey = Key18
  /\ apOut.a.Ticket \in APTickets
  /\ Len(apOut.a.Authenticator.Cipher) = 16 + Len(MarshalAuthenticator(apIn.auth)) + 12

\* C17: APReq.Unmarshal returns an error for every decoded message whose
\* msg-type is not 14; on success the APReq has msg-type 14, the PVNO,
\* ap-options and authenticator of the decoded message, and as Ticket what
\* the content of the [3] element parses to.
C17_UnmarshalMsgType ==
  apOut.unDone =>
    /\ apIn.b.MsgType # 14 => apOut.unErr # ""
    /\ apOut.unErr = ""
         => /\ apOut.u.MsgType = 14
            /\ apOut.u.PVNO = apIn.b.PVNO
            /\ apOut.u.APOptions = apIn.b.APOptions
            /\ apOut.u.Authenticator = apIn.b.Authenticator
            /\ MarshalTicket(apOut.u.Ticket) = apIn.b.Ticket.Bytes

\* bytes that decode, with a ticket that parses and msg-type 11, were refused
C17_Witness ==
  /\ apOut.unDone
  /\ apIn.b.ok /\ apIn.b.app = APREQ
  /\ UnmarshalTicket(apIn.b.Ticket.Bytes).err = FALSE
  /\ apIn.b.MsgType = 11
  /\ apOut.unErr # ""

----------------------------------------------------------------------------
(* The key usage constants (EncryptionEngine.go:282-309), computed for two *)
(* usage numbers at a time.  The usage numbers are those an int of TLC     *)
(* holds, 0 .. 2^31 - 1.                                                   *)

\* usage numbers: the small ones of RFC 4120, and numbers that reach into
\* each of the four bytes
UsageNumbers ==
  {0, 1, 2, 7, 255, 256, 257, 65535, 65536, 16777216, 16777217, 2147483647}

InitUsage ==
  /\ IdleCrypto
  /\ IdleKey
  /\ IdleClient
  /\ IdleAP
  /\ usIn \in UsageNumbers \X UsageNumbers
  /\ usOut = <<NoUsageOut, NoUsageOut>>

\* the three constants of the i-th usage number
CallGetUsage(i) ==
  /\ ~usOut[i].done
  /\ usOut' = [usOut EXCEPT ![i] = [done |-> TRUE, kc |-> GetUsageKc(usIn[i]),
                                    ke |-> GetUsageKe(usIn[i]),
                                    ki |-> GetUsageKi(usIn[i])]]
  /\ UNCHANGED usIn
  /\ UNCHANGED <<cryptoVars, keyVars, clientVars, apVars>>

NextUsage == CallGetUsage(1) \/ CallGetUsage(2)

SpecUsage == InitUsage /\ [][NextUsage]_vars

----------------------------------------------------------------------------
(* Claims about the key usage constants (checked under SpecUsage).         *)

\* b is 5 bytes: the number u in big-endian order, then the byte tag
BigEndianThenTag(b, u, tag) ==
  /\ Len(b) = 5
  /\ \A i \in 1..5 : b[i] \in 0..255
  /\ ((b[1] * 256 + b[2]) * 256 + b[3]) * 256 + b[4] = u
  /\ b[5] = tag

\* the constants computed so far, each with its usage number and its tag
UsageConstants ==
  UNION {{[u |-> usIn[i], tag |-> "Kc", b |-> usOut[i].kc],
          [u |-> usIn[i], tag |-> "Ke", b |-> usOut[i].ke],
          [u |-> usIn[i], tag |-> "Ki", b |-> usOut[i].ki]} :
           i \in {j \in 1..2 : usOut[j].done}}

\* C18: GetUsageKc(u), GetUsageKe(u) and GetUsageKi(u) are 5 bytes each, u
\* in big-endian order followed by 0x99, 0xAA and 0x55; the three constants
\* of one u are pairwise distinct, and two constants are equal only if
\* they have the same u and the same tag.
C18_UsageConstants ==
  /\ \A i \in 1..2 :
       usOut[i].done =>
         /\ BigEndianThenTag(usOut[i].kc, usIn[i], 153)
         /\ BigEndianThenTag(usOut[i].ke, usIn[i], 170)
         /\ BigEndianThenTag(usOut[i].ki, usIn[i], 85)
         /\ usOut[i].kc # usOut[i].ke
         /\ usOut[i].kc # usOut[i].ki
         /\ usOut[i].ke # usOut[i].ki
  /\ \A x \in UsageConstants, y \in UsageConstants :
       x.b = y.b => (x.u = y.u /\ x.tag = y.tag)

\* the constants of 256 and of 65536, whose bytes differ only in position
C18_Witness ==
  /\ usIn = <<256, 65536>>
  /\ usOut[1].done /\ usOut[2].done
  /\ usOut[1].ke = <<0, 0, 1, 0, 170>>
  /\ usOut[2].ke = <<0, 1, 0, 0, 170>>

----------------------------------------------------------------------------
(* Claims about the keytab lookup and the configuration in the preauth     *)
(* retry (checked under Spec).                                             *)

\* the entries of the keytab for (username, realm, kvno 1, enctype id)
KeytabHits(id) ==
  {e \in Keytab : /\ e.Principal = Username /\ e.Realm = Default_realm
                  /\ e.KVNO = 1 /\ e.Key.KeyType = id}

\* the retry got as far as the keytab lookup, and the lookup found nothing
LookupFailed ==
  /\ ASCall
  /\ call.pa.chosen \in {AES128_CTS_HMAC_SHA1_96, AES256_CTS_HMAC_SHA1_96}
  /\ KeytabHits(call.pa.chosen) = {}

\* C19: when the keytab lookup of the preauth retry finds no key, ASExchange
\* returns an error and sends no second AS-REQ; a timestamp that is sent
\* was encrypted with a key the keytab returned for the enctype.
C19_LookupFailureStops ==
  /\ LookupFailed
       => /\ call.err.kind = "error"
          /\ Len(call.sent) = 1
          /\ ~HasPAEncTimestamp(call.sent[1])
          /\ Session = call.before.Session
  /\ (ASCall /\ Len(call.sent) = 2)
       => \E e \in KeytabHits(call.pa.chosen) :
            call.sent[2].PAData[Len(call.sent[2].PAData)].PADataValue
              = GetEncryptedData(call.pa.paTSb, e.Key, 0, 1,
                                 [err |-> FALSE, c |-> call.pa.c]).ed.Cipher

\* the keytab holds the AES128 key only and the retry picked AES256
C19_Witness ==
  /\ LookupFailed
  /\ call.pa.chosen = AES256_CTS_HMAC_SHA1_96
  /\ Keytab # {}
  /\ call.in.reply1 = PreauthRequired
  /\ call.err = Errorf("Error encrypting pre-authentication timestamp")

\* C20: ASExchange leaves the configuration as it was: after the call the
\* default-tkt-enctypes list holds the same ids in the same order.
C20_ConfigReadOnly ==
  ASCall => Default_tkt_enctype_ids = call.before.ids

====
